---- MODULE Spec2Model ----
(***************************************************************************)
(* bevy_serial (rust/bevy_serial/src/lib.rs): the plugin's start-up        *)
(* (SerialPlugin::build) and its two systems, read_serial (PreUpdate) and  *)
(* write_serial (PostUpdate), driven frame by frame by the host App.       *)
(*                                                                         *)
(* The operating system is the environment: the result of every open,      *)
(* register, poll, read and write call is an input chosen by \E.  The      *)
(* bytes a device produces are identified by their position in the         *)
(* device's stream (DeviceByte), so loss, duplication and reordering are   *)
(* all visible in the bytes of a message.                                  *)
(***************************************************************************)
EXTENDS Integers, Sequences, FiniteSets, TLC

\* ------------------------------------------------------------------------
\* Bounds of the model
\* ------------------------------------------------------------------------
\* frames the host loop runs
MaxCycles == 2
\* successful (n > 0) read calls the devices serve over a run of ReadSpec
MaxReads == 3
\* the same over a run of Spec, in which the application also writes
FewReads == 1
\* write requests the application sends in one frame
MaxRequests == 2
\* the diagnostics counters saturate here
MaxReports == 2

\* The first length and the growth step of the read buffer.  The source sets
\* 2048; read_serial uses the constant only in these two places, and the
\* model runs the same code with a step small enough for every read size
\* and every buffer fill of a drain to be enumerated.
DEFAULT_READ_BUFFER_LEN == 4

\* ------------------------------------------------------------------------
\* Input domains
\* ------------------------------------------------------------------------

None == <<>>
Some(x) == <<x>>

\* SerialSetting, reduced to the two fields build reads to resolve a label
\* (the line parameters only go to the driver).
Setting(label, port_name) == [label |-> label, port_name |-> port_name]

\* SerialPlugin::new(port_name, baud_rate): one setting, label None.
NewPlugin(port_name) == << Setting(None, port_name) >>

\* The plugin configurations the model starts from.
SettingsChoices ==
    { << >>,
      NewPlugin("/dev/a"),
      << Setting(Some("nav"), "/dev/a"), Setting(Some("gps"), "/dev/b") >>,
      << Setting(Some("nav"), "/dev/a"), Setting(Some("nav"), "/dev/b") >>,
      << Setting(None, "/dev/a"), Setting(Some("/dev/a"), "/dev/b") >> }

PING == << 80, 73, 78, 71 >>
\* payloads an application may put in a SerialWriteEvent
Payloads == { << >>, PING }

\* what a successful read into a slice of `room` bytes may return
ReadSizes(room) == 1..room

\* The k-th byte (k >= 1) the device behind slot i produces.
DeviceByte(i, k) == (k + 101 * i) % 256

\* The bytes the device behind slot i produces after its first `from` bytes,
\* up to and including byte number `to`.
DeviceBytes(i, from, to) == [k \in 1..(to - from) |-> DeviceByte(i, from + k)]

Min(a, b) == IF a < b THEN a ELSE b

\* saturating increment of a diagnostics counter
Bump(c) == Min(c + 1, MaxReports)

VARIABLES
    settings,     \* SerialPlugin.settings
    phase,        \* "build", "running", or "panicked"
    panic,        \* the panic that ended the process, "" while it lives
    opened,       \* indices of the settings whose device has been opened
    registered,   \* tokens registered with the poller
    serials,      \* SERIALS: sequence of [label, connected]; slot i is serials[i+1]
    indices,      \* Indices: label -> slot
    stage,        \* position of the host loop in the frame
    cycle,        \* frames started
    events,       \* Events still to be handled by read_serial in this frame
    rd,           \* the read drain of read_serial
    ev_receive,   \* SerialReadEvents sent by the running read_serial
    ev_write,     \* SerialWriteEvents still to be handled by write_serial
    wr,           \* the write drain of write_serial
    rxpos,        \* per slot: number of device bytes handed out by read calls
    emitpos,      \* per slot: rxpos at the last SerialReadEvent of the slot
    supply,       \* successful reads the devices will still serve
    sys           \* the system call made by the last step, if any

vars == << settings, phase, panic, opened, registered, serials, indices, stage,
           cycle, events, rd, ev_receive, ev_write, wr, rxpos, emitpos,
           supply, sys >>

NoSys == [kind |-> "none", slot |-> 0 - 1, result |-> "none", n |-> 0]
Sys(kind, slot, result, n) == [kind |-> kind, slot |-> slot, result |-> result, n |-> n]

Slots == 0..(Len(serials) - 1)
Serial(i) == serials[i + 1]
Connected(i) == Serial(i).connected

IdleRd == [active |-> FALSE, slot |-> 0 - 1, buffer |-> << >>, bytes_read |-> 0,
           reports |-> 0, errors |-> 0]
IdleWr == [pc |-> "idle", slot |-> 0 - 1, label |-> "", buffer |-> << >>,
           bytes_wrote |-> 0, sent |-> << >>, reports |-> 0, last |-> "none"]

Init ==
    /\ settings \in SettingsChoices
    /\ phase = "build"
    /\ panic = ""
    /\ opened = {}
    /\ registered = {}
    /\ serials = << >>
    /\ indices = << >>
    /\ stage = "build"
    /\ cycle = 0
    /\ events = << >>
    /\ rd = IdleRd
    /\ ev_receive = << >>
    /\ ev_write = << >>
    /\ wr = IdleWr
    /\ rxpos = << >>
    /\ emitpos = << >>
    /\ supply = FewReads
    /\ sys = NoSys

\* ------------------------------------------------------------------------
\* SerialPlugin::build
\* ------------------------------------------------------------------------
\* ResolveLabel that never looks at the label
ResolveLabelPortName(setting) == setting.port_name

\* "if label is set, use label as a nickname of serial; if not, use port_name"
ResolveLabel(setting) ==
    IF setting.label # None THEN setting.label[1] ELSE setting.port_name

\* HashMap::insert: a new key is added, an existing key gets the new value.
MapInsert(map, key, value) ==
    [k \in (DOMAIN map) \cup {key} |-> IF k = key THEN value ELSE map[k]]

OpenResults == {"ok", "open_failed", "register_failed"}

\* One iteration of the loop over self.settings; i is the number of ports
\* pushed so far.  A failed open or register panics.
BuildPort ==
    /\ phase = "build"
    /\ Len(serials) < Len(settings)
    /\ LET i == Len(serials)
           setting == settings[i + 1]
           label == ResolveLabel(setting)
       IN \E r \in OpenResults :
            /\ sys' = Sys("open", i, r, 0)
            /\ IF r = "open_failed"
               THEN /\ phase' = "panicked"
                    /\ panic' = "Failed to open serial port"
                    /\ UNCHANGED << opened, registered, serials, indices,
                                    rxpos, emitpos >>
               ELSE IF r = "register_failed"
               THEN /\ phase' = "panicked"
                    /\ panic' = "Failed to register stream to poll"
                    /\ opened' = opened \cup {i}
                    /\ UNCHANGED << registered, serials, indices, rxpos, emitpos >>
               ELSE /\ opened' = opened \cup {i}
                    /\ registered' = registered \cup {i}
                    /\ indices' = MapInsert(indices, label, i)
                    /\ serials' = Append(serials, [label |-> label, connected |-> TRUE])
                    /\ rxpos' = Append(rxpos, 0)
                    /\ emitpos' = Append(emitpos, 0)
                    /\ UNCHANGED << phase, panic >>
    /\ UNCHANGED << settings, stage, cycle, events, rd, ev_receive, ev_write,
                    wr, supply >>

\* After the loop: SERIALS.set(serials), the resources and the two systems
\* are added, and the App starts running frames.
BuildFinish ==
    /\ phase = "build"
    /\ Len(serials) = Len(settings)
    /\ phase' = "running"
    /\ stage' = "pre_update"
    /\ sys' = NoSys
    /\ UNCHANGED << settings, panic, opened, registered, serials, indices, cycle,
                    events, rd, ev_receive, ev_write, wr, rxpos, emitpos, supply >>

\* ------------------------------------------------------------------------
\* read_serial
\* ------------------------------------------------------------------------
Zeros(n) == [k \in 1..n |-> 0]

\* ReadStore with the slice taken from the start of the buffer (&mut buffer[..])
ReadStoreAtStart(buffer, bytes_read, chunk) ==
    [k \in 1..Len(buffer) |-> IF k <= Len(chunk) THEN chunk[k] ELSE buffer[k]]

\* stream.read(&mut buffer[bytes_read..]) returning Ok(n): the n bytes of
\* chunk land at offset bytes_read.
ReadStore(buffer, bytes_read, chunk) ==
    [k \in 1..Len(buffer) |->
        IF k > bytes_read /\ k <= bytes_read + Len(chunk)
        THEN chunk[k - bytes_read]
        ELSE buffer[k]]

\* Vec::resize(new_len, 0)
Resize(buffer, new_len) ==
    [k \in 1..new_len |-> IF k <= Len(buffer) THEN buffer[k] ELSE 0]

\* GrowIfFull without the resize
NeverGrow(buffer, bytes_read) == buffer

\* "if buffer is full, maybe there is more data to read"
GrowIfFull(buffer, bytes_read) ==
    IF bytes_read = Len(buffer)
    THEN Resize(buffer, Len(buffer) + DEFAULT_READ_BUFFER_LEN)
    ELSE buffer

\* buffer.drain(..bytes_read).collect()
DrainTo(buffer, bytes_read) == SubSeq(buffer, 1, bytes_read)

\* ConnectedAfterRead without the assignment of the Ok(0) arm
ConnectedKept(connected, result) == connected

\* ConnectedAfterRead with the flag cleared in the Err arm too
ConnectedLostOnError(connected, result) ==
    IF result \in {"Closed", "Error"} THEN FALSE ELSE connected

\* serial.connected after a read that returned `result`
ConnectedAfterRead(connected, result) ==
    IF result = "Closed" THEN FALSE ELSE connected

\* ReadBreaks with "break" for the "continue" of the Interrupted arm
ReadBreaksOnInterrupt(result) == result \in {"Closed", "WouldBlock", "Interrupted"}

\* does the loop of the read drain break after `result`?
ReadBreaks(result) == result \in {"Closed", "WouldBlock"}

\* EmitsOn with a send in the Ok(0) arm too (the bytes read before a close)
EmitsOnBreak(result) == result \in {"WouldBlock", "Closed"}

\* EmitsOn with a send in the Ok(n) arm too (one event per read)
EmitsPerRead(result) == result \in {"WouldBlock", "Ok"}

\* does the arm of `result` send a SerialReadEvent?  Only the WouldBlock arm.
EmitsOn(result) == result = "WouldBlock"

SetConnected(i, c) == [serials EXCEPT ![i + 1].connected = c]

\* The event lists poll may fill in: each registered token at most once,
\* readable or not (readiness may be spurious).
Event(token, readable) == [token |-> token, readable |-> readable]
EventLists ==
    { es \in UNION { [1..n -> { Event(t, b) : t \in registered, b \in BOOLEAN }] :
                        n \in 0..Cardinality(registered) } :
        \A j, k \in DOMAIN es : j # k => es[j].token # es[k].token }

\* A frame starts: read_serial runs in PreUpdate.  With no ports it does
\* nothing; otherwise it polls (a failed poll panics).
ReadSerialPoll ==
    /\ phase = "running"
    /\ stage = "pre_update"
    /\ cycle < MaxCycles
    /\ cycle' = cycle + 1
    /\ ev_receive' = << >>
    /\ rd' = IdleRd
    /\ wr' = IdleWr
    /\ IF DOMAIN indices = {}
       THEN /\ stage' = "update"
            /\ sys' = NoSys
            /\ UNCHANGED << events, phase, panic >>
       ELSE \/ /\ sys' = Sys("poll", 0 - 1, "failed", 0)
               /\ phase' = "panicked"
               /\ panic' = "Failed to poll events"
               /\ UNCHANGED << events, stage >>
            \/ /\ sys' = Sys("poll", 0 - 1, "ok", 0)
               /\ events' \in EventLists
               /\ stage' = "read"
               /\ UNCHANGED << phase, panic >>
    /\ UNCHANGED << settings, opened, registered, serials, indices, ev_write,
                    rxpos, emitpos, supply >>

\* for event in events.iter(): the next event; a readable one starts a drain
\* with a fresh buffer.
ReadNextEvent ==
    /\ phase = "running"
    /\ stage = "read"
    /\ ~rd.active
    /\ events # << >>
    /\ LET e == Head(events)
       IN /\ events' = Tail(events)
          /\ rd' = IF e.readable
                   THEN [IdleRd EXCEPT !.active = TRUE, !.slot = e.token,
                                       !.buffer = Zeros(DEFAULT_READ_BUFFER_LEN)]
                   ELSE IdleRd
    /\ sys' = NoSys
    /\ UNCHANGED << settings, phase, panic, opened, registered, serials, indices,
                    stage, cycle, ev_receive, ev_write, wr, rxpos, emitpos, supply >>

ReadResults == {"Ok", "Closed", "WouldBlock", "Interrupted", "Error"}

\* One iteration of the loop of the read drain: lock the port; if it is
\* connected, read and match on the result, else report.
ReadIteration ==
    /\ phase = "running"
    /\ stage = "read"
    /\ rd.active
    /\ LET i == rd.slot
           room == Len(rd.buffer) - rd.bytes_read
       IN IF ~Connected(i)
          THEN /\ rd' = [rd EXCEPT !.reports = Bump(rd.reports)]
               /\ sys' = NoSys
               /\ UNCHANGED << serials, ev_receive, rxpos, emitpos, supply >>
          ELSE \E result \in ReadResults :
               \E n \in IF result = "Ok" THEN ReadSizes(room) ELSE {0} :
                 /\ result = "Ok" => supply > 0
                 /\ sys' = Sys("read", i, result, n)
                 /\ supply' = IF result = "Ok" THEN supply - 1 ELSE supply
                 /\ rxpos' = [rxpos EXCEPT ![i + 1] = @ + n]
                 /\ serials' = SetConnected(i, ConnectedAfterRead(Connected(i), result))
                 /\ LET chunk == DeviceBytes(i, rxpos[i + 1], rxpos[i + 1] + n)
                        stored == ReadStore(rd.buffer, rd.bytes_read, chunk)
                        count == rd.bytes_read + n
                    IN /\ rd' = IF ReadBreaks(result)
                                THEN IdleRd
                                ELSE IF result = "Ok"
                                THEN [rd EXCEPT !.buffer = GrowIfFull(stored, count),
                                                !.bytes_read = count]
                                ELSE IF result = "Error"
                                THEN [rd EXCEPT !.errors = Bump(rd.errors)]
                                ELSE rd
                       /\ IF EmitsOn(result)
                          THEN /\ ev_receive' =
                                    Append(ev_receive,
                                           [label |-> Serial(i).label,
                                            buffer |-> DrainTo(rd.buffer, rd.bytes_read)])
                               /\ emitpos' = [emitpos EXCEPT ![i + 1] = rxpos[i + 1]]
                          ELSE UNCHANGED << ev_receive, emitpos >>
    /\ UNCHANGED << settings, phase, panic, opened, registered, indices, stage,
                    cycle, events, ev_write, wr >>

\* The loop over the events is over: read_serial returns and the frame goes
\* on to the application's systems.  The events sent are now the App's, to
\* deliver to the consumers; the plugin never reads them.
ReadSerialReturn ==
    /\ phase = "running"
    /\ stage = "read"
    /\ ~rd.active
    /\ events = << >>
    /\ stage' = "update"
    /\ ev_receive' = << >>
    /\ sys' = NoSys
    /\ UNCHANGED << settings, phase, panic, opened, registered, serials, indices,
                    cycle, events, rd, ev_write, wr, rxpos, emitpos, supply >>

\* ------------------------------------------------------------------------
\* The application's systems (Update): they send SerialWriteEvents
\* ------------------------------------------------------------------------
SerialWriteEvent(label, buffer) == [label |-> label, buffer |-> buffer]

\* labels an application may address: the labels of the ports, and one that
\* is no port's label
RequestLabels == { serials[k].label : k \in DOMAIN serials } \cup {"bogus"}

AppSend ==
    /\ phase = "running"
    /\ stage = "update"
    /\ Len(ev_write) < MaxRequests
    /\ \E label \in RequestLabels, buffer \in Payloads :
         ev_write' = Append(ev_write, SerialWriteEvent(label, buffer))
    /\ sys' = NoSys
    /\ UNCHANGED << settings, phase, panic, opened, registered, serials, indices,
                    stage, cycle, events, rd, ev_receive, wr, rxpos, emitpos,
                    supply >>

\* ------------------------------------------------------------------------
\* write_serial
\* ------------------------------------------------------------------------
\* write_serial runs in PostUpdate.  With no ports it does nothing and the
\* frame is over.
WriteSerialBegin ==
    /\ phase = "running"
    /\ stage = "update"
    /\ stage' = IF DOMAIN indices = {} THEN "pre_update" ELSE "write"
    /\ ev_write' = IF DOMAIN indices = {} THEN << >> ELSE ev_write
    /\ sys' = NoSys
    /\ UNCHANGED << settings, phase, panic, opened, registered, serials, indices,
                    cycle, events, rd, ev_receive, wr, rxpos, emitpos, supply >>

\* for SerialWriteEvent(label, buffer) in ev_write_serial.iter(): the next
\* request.  indices.get(label).expect(..) panics on a label that is no key.
WriteNextRequest ==
    /\ phase = "running"
    /\ stage = "write"
    /\ wr.pc \in {"idle", "done"}
    /\ ev_write # << >>
    /\ LET req == Head(ev_write)
       IN /\ ev_write' = Tail(ev_write)
          /\ IF req.label \notin DOMAIN indices
             THEN /\ phase' = "panicked"
                  /\ panic' = "Label is not exist"
                  /\ wr' = [IdleWr EXCEPT !.label = req.label, !.buffer = req.buffer]
             ELSE /\ wr' = [IdleWr EXCEPT !.pc = "attempt",
                                          !.slot = indices[req.label],
                                          !.label = req.label,
                                          !.buffer = req.buffer]
                  /\ UNCHANGED << phase, panic >>
    /\ sys' = NoSys
    /\ UNCHANGED << settings, opened, registered, serials, indices, stage, cycle,
                    events, rd, ev_receive, rxpos, emitpos, supply >>

\* WroteAfter with "bytes_wrote = n" for "bytes_wrote += n"
WroteAssigned(bytes_wrote, n, len) == IF n < len THEN n ELSE len

\* WroteAfter with n compared with the rest of the payload, the whole
\* length still added in the second arm
WroteCompareRest(bytes_wrote, n, len) ==
    IF n < len - bytes_wrote THEN bytes_wrote + n ELSE bytes_wrote + len

\* bytes_wrote after a write that returned Ok(n): the two Ok arms of the
\* match, which compare n with the length of the whole payload.
WroteAfter(bytes_wrote, n, len) ==
    IF n < len THEN bytes_wrote + n ELSE bytes_wrote + len

WriteResults == {"Ok", "WouldBlock", "Interrupted", "Error"}

\* what a write of a slice of `room` bytes may accept
WriteSizes(room) == 0..room

\* The first half of an iteration of the loop of the write drain: lock the
\* port; if it is connected, write the rest of the payload and match on the
\* result, else report.
WriteAttempt ==
    /\ phase = "running"
    /\ stage = "write"
    /\ wr.pc = "attempt"
    /\ LET i == wr.slot
           len == Len(wr.buffer)
           room == len - wr.bytes_wrote
       IN IF ~Connected(i)
          THEN /\ wr' = [wr EXCEPT !.pc = "test", !.reports = Bump(wr.reports),
                                   !.last = "none"]
               /\ sys' = NoSys
          ELSE \E result \in WriteResults :
               \E n \in IF result = "Ok" THEN WriteSizes(room) ELSE {0} :
                 /\ sys' = Sys("write", i, result, n)
                 /\ wr' = [wr EXCEPT
                             !.pc = "test",
                             !.last = result,
                             !.bytes_wrote = IF result = "Ok"
                                             THEN WroteAfter(wr.bytes_wrote, n, len)
                                             ELSE @,
                             !.sent = @ \o SubSeq(wr.buffer, wr.bytes_wrote + 1,
                                                  wr.bytes_wrote + n)]
    /\ UNCHANGED << settings, phase, panic, opened, registered, serials, indices,
                    stage, cycle, events, rd, ev_receive, ev_write, rxpos,
                    emitpos, supply >>

\* The second half: "if bytes_wrote == buffer.len() { break } else { continue }"
WriteLoopTest ==
    /\ phase = "running"
    /\ stage = "write"
    /\ wr.pc = "test"
    /\ wr' = [wr EXCEPT !.pc = IF wr.bytes_wrote = Len(wr.buffer)
                               THEN "done" ELSE "attempt"]
    /\ sys' = NoSys
    /\ UNCHANGED << settings, phase, panic, opened, registered, serials, indices,
                    stage, cycle, events, rd, ev_receive, ev_write, rxpos,
                    emitpos, supply >>

\* The loop over the requests is over: write_serial returns, the frame ends.
WriteSerialReturn ==
    /\ phase = "running"
    /\ stage = "write"
    /\ wr.pc \in {"idle", "done"}
    /\ ev_write = << >>
    /\ stage' = "pre_update"
    /\ wr' = IdleWr
    /\ sys' = NoSys
    /\ UNCHANGED << settings, phase, panic, opened, registered, serials, indices,
                    cycle, events, rd, ev_receive, ev_write, rxpos, emitpos,
                    supply >>

Next ==
    \/ BuildPort
    \/ BuildFinish
    \/ ReadSerialPoll
    \/ ReadNextEvent
    \/ ReadIteration
    \/ ReadSerialReturn
    \/ AppSend
    \/ WriteSerialBegin
    \/ WriteNextRequest
    \/ WriteAttempt
    \/ WriteLoopTest
    \/ WriteSerialReturn

Spec == Init /\ [][Next]_vars

\* The host thread keeps running: a step that can be taken is taken.
FairSpec == Spec /\ WF_vars(Next)

\* Frames in which the application sends no SerialWriteEvent (as the viewer's
\* main.rs, whose write system is commented out), with devices that serve
\* up to MaxReads reads.
InitRead ==
    /\ settings \in SettingsChoices
    /\ phase = "build"
    /\ panic = ""
    /\ opened = {}
    /\ registered = {}
    /\ serials = << >>
    /\ indices = << >>
    /\ stage = "build"
    /\ cycle = 0
    /\ events = << >>
    /\ rd = IdleRd
    /\ ev_receive = << >>
    /\ ev_write = << >>
    /\ wr = IdleWr
    /\ rxpos = << >>
    /\ emitpos = << >>
    /\ supply = MaxReads
    /\ sys = NoSys

NextRead ==
    \/ BuildPort
    \/ BuildFinish
    \/ ReadSerialPoll
    \/ ReadNextEvent
    \/ ReadIteration
    \/ ReadSerialReturn
    \/ WriteSerialBegin
    \/ WriteSerialReturn

ReadSpec == InitRead /\ [][NextRead]_vars
\* ------------------------------------------------------------------------
\* Properties
\* ------------------------------------------------------------------------
\* the step sends a SerialReadEvent
Emits == Len(ev_receive') = Len(ev_receive) + 1

\* C1: every SerialReadEvent a read drain sends carries the label of the
\* drained port and exactly the bytes the device produced since the port's
\* previous SerialReadEvent, in order: none lost, duplicated or reordered,
\* whatever the sizes of the reads and however often the buffer grew.
C1_ReadFidelity ==
    [][ Emits =>
          LET i == rd.slot
              m == ev_receive'[Len(ev_receive')]
          IN /\ m.label = Serial(i).label
             /\ m.buffer = DeviceBytes(i, emitpos[i + 1], rxpos[i + 1]) ]_vars

\* C1 witness: an event made of more bytes than the buffer first held, so of
\* at least two reads, the first of which filled the buffer and grew it.
C1_Witness ==
    \E k \in DOMAIN ev_receive : Len(ev_receive[k].buffer) > DEFAULT_READ_BUFFER_LEN

\* C2: a read that returns zero bytes clears the port's connected flag in
\* the same step; and while a port's flag is clear, no step sets it again,
\* sends a SerialReadEvent for the port, issues a write call to the port or
\* hands a byte to its device.
C2_ClosedPortStaysSilent ==
    [][ \A i \in Slots :
          /\ (sys'.kind = "read" /\ sys'.result = "Closed" /\ sys'.slot = i)
                => ~serials'[i + 1].connected
          /\ ~Connected(i) =>
                /\ ~serials'[i + 1].connected
                /\ ~(Emits /\ rd.slot = i)
                /\ ~(sys'.kind = "write" /\ sys'.slot = i)
                /\ (wr.slot = i /\ wr'.slot = i) => wr'.sent = wr.sent ]_vars

\* C2 witness: a write drain has run an iteration for a port that a zero-byte
\* read closed, with a payload still to send.
C2_Witness ==
    \E i \in Slots :
        /\ ~Connected(i)
        /\ wr.pc = "test" /\ wr.slot = i /\ wr.buffer # << >>

\* C3: throughout a write drain the bytes the device accepted are exactly
\* the first bytes_wrote bytes of the payload, in order and once each; the
\* loop goes round again only while bytes of the payload remain, and it ends
\* with the whole payload sent.
C3_WriteFidelity ==
    wr.pc # "idle" =>
        /\ wr.bytes_wrote <= Len(wr.buffer)
        /\ wr.sent = SubSeq(wr.buffer, 1, wr.bytes_wrote)
        /\ (wr.pc = "attempt" /\ wr.buffer # << >>) => wr.sent # wr.buffer
        /\ wr.pc = "done" => wr.sent = wr.buffer

\* C3 witness: a write accepted fewer bytes than the payload has, and with it
\* the payload is complete: it went out in at least two partial writes.
C3_Witness ==
    /\ wr.pc = "test" /\ wr.last = "Ok"
    /\ sys.kind = "write" /\ sys.n > 0 /\ sys.n < Len(wr.buffer)
    /\ wr.sent = wr.buffer

\* C4: a write drain does not retry for ever on would-block: a drain whose
\* last write returned would-block eventually stops retrying.
C4_WouldBlockYields ==
    (wr.pc \in {"attempt", "test"} /\ wr.last = "WouldBlock")
        ~> ~(wr.pc \in {"attempt", "test"} /\ wr.last = "WouldBlock")

\* C5: a write request with an unknown label does not abort the process.
C5_UnknownLabelDropped == panic # "Label is not exist"

HasDuplicateLabels(st) ==
    \E j, k \in DOMAIN st : j # k /\ ResolveLabel(st[j]) = ResolveLabel(st[k])

\* C6: with two settings that resolve to the same label, build fails, and
\* before any device is opened or registered.
C6_DuplicateLabelsRejected ==
    HasDuplicateLabels(settings) =>
        /\ opened = {}
        /\ registered = {}
        /\ phase # "running"

\* C7: after a successful build, every slot's label resolves to that slot
\* and there are as many labels as slots.
C7_LabelsBijective ==
    phase = "running" =>
        /\ \A i \in Slots :
              /\ Serial(i).label \in DOMAIN indices
              /\ indices[Serial(i).label] = i
        /\ Cardinality(DOMAIN indices) = Len(serials)

\* C8: a read drain of a port that is not connected reports once and is over.
C8_ClosedReadReportsOnce ==
    /\ rd.reports <= 1
    /\ rd.reports >= 1 => ~rd.active

\* C9: a write drain for a port that is not connected reports once and is
\* over: it does not go round the loop again.
C9_ClosedWriteReportsOnce ==
    /\ wr.reports <= 1
    /\ wr.reports >= 1 => wr.pc # "attempt"

\* C10: a read error other than would-block and interrupted ends the read
\* drain of the port.
C10_ReadErrorEndsDrain == rd.errors >= 1 => ~rd.active

\* C11: a write error other than would-block and interrupted ends the write
\* drain of the request: the loop does not go round again to write the rest.
C11_WriteErrorEndsDrain == wr.last = "Error" => wr.pc # "attempt"

\* C12: every SerialReadEvent carries at least one byte; a drain whose first
\* read returns would-block sends none.
C12_NoEmptyEvent == \A k \in DOMAIN ev_receive : ev_receive[k].buffer # << >>

\* bytes of slot i that a read handed out and no SerialReadEvent carried,
\* with no drain of the slot running that still holds them
Discarded(i) == rxpos[i + 1] > emitpos[i + 1] /\ ~(rd.active /\ rd.slot = i)

StalledBehind ==
    /\ wr.pc \in {"attempt", "test"}
    /\ wr.last \in {"WouldBlock", "Error"} \/ ~Connected(wr.slot)
    /\ ev_write # << >>
    /\ Head(ev_write).label \in DOMAIN indices
    /\ indices[Head(ev_write).label] # wr.slot

\* C15: a stall on one port does not block another port for ever: a request
\* for another port that waits behind a stalled write drain is eventually
\* taken up.
C15_StallDoesNotBlockOthers == StalledBehind ~> ~StalledBehind

ConfiguredLabel(i) ==
    IF settings[i + 1].label = None
    THEN settings[i + 1].port_name
    ELSE settings[i + 1].label[1]

\* the registry as build leaves it: slot i holds the port of setting i under
\* token i, and every label of the index leads to a slot with that label
RegistryAsBuilt ==
    /\ registered = Slots
    /\ \A i \in Slots : Serial(i).label = ConfiguredLabel(i)
    /\ \A l \in DOMAIN indices :
          indices[l] \in Slots /\ Serial(indices[l]).label = l
    /\ \A k \in DOMAIN events : events[k].token \in Slots
    /\ rd.active => rd.slot \in Slots

\* C17: slots are stable: the registry is as build leaves it; once the App
\* runs, no step adds, removes or reorders a port, changes a label, the
\* label index or the tokens; and a SerialReadEvent sent for token i carries
\* the label of setting i.
C17_SlotsStable ==
    [][ /\ RegistryAsBuilt'
        /\ phase = "running" =>
              /\ Len(serials') = Len(serials)
              /\ \A i \in Slots : serials'[i + 1].label = Serial(i).label
              /\ indices' = indices
              /\ registered' = registered
        /\ Emits => ev_receive'[Len(ev_receive')].label = ConfiguredLabel(rd.slot) ]_vars

\* C17 witness: a SerialReadEvent has just been sent for token 1, the second
\* port.
C17_Witness ==
    /\ ev_receive # << >>
    /\ sys.kind = "read" /\ sys.result = "WouldBlock" /\ sys.slot = 1

\* C18: a read that returns bytes sends nothing; a step sends at most one
\* SerialReadEvent, and the step that sends it ends the drain, so a drain
\* sends at most one; a would-block after at least one byte sends exactly
\* one, and it holds all the bytes the drain read.
C18_OneEventPerDrain ==
    [][ /\ Len(ev_receive') <= Len(ev_receive) + 1
        /\ Emits => (rd.active /\ ~rd'.active)
        /\ (sys'.kind = "read" /\ sys'.result = "Ok") => ev_receive' = ev_receive
        /\ (sys'.kind = "read" /\ sys'.result = "WouldBlock" /\ rd.bytes_read >= 1) =>
              /\ Emits
              /\ Len(ev_receive'[Len(ev_receive')].buffer) = rd.bytes_read ]_vars

\* C18 witness: a would-block has just sent one event that holds the bytes
\* of at least two reads (more than the buffer first held).
C18_Witness ==
    /\ sys.kind = "read" /\ sys.result = "WouldBlock"
    /\ ev_receive # << >>
    /\ Len(ev_receive[Len(ev_receive)].buffer) > DEFAULT_READ_BUFFER_LEN

\* C19: whenever a read drain is about to read, 0 <= bytes_read < length of
\* the buffer: the slice given to read is never empty.
C19_RoomToRead ==
    rd.active => (0 <= rd.bytes_read /\ rd.bytes_read < Len(rd.buffer))

\* C19 witness: a drain that filled its buffer and goes on with a grown one.
C19_Witness ==
    rd.active /\ rd.bytes_read >= DEFAULT_READ_BUFFER_LEN

\* C20: throughout a write drain 0 <= bytes_wrote <= length of the payload,
\* and bytes_wrote counts exactly the bytes accepted, so it reaches the
\* length when the last byte is accepted and not beyond.
C20_WroteInBounds ==
    wr.pc # "idle" =>
        /\ 0 <= wr.bytes_wrote
        /\ wr.bytes_wrote <= Len(wr.buffer)
        /\ wr.bytes_wrote = Len(wr.sent)

\* C20 witness: a drain in the middle of a payload, about to write the slice
\* buffer[bytes_wrote..].
C20_Witness ==
    /\ wr.pc = "attempt"
    /\ wr.bytes_wrote > 0 /\ wr.bytes_wrote < Len(wr.buffer)

\* C21: a port's connected flag is monotonic.  A port is pushed with the
\* flag set; no step adds or removes a port afterwards other than build's
\* push; a clear flag stays clear; the flag is cleared only by the step in
\* which a read of that port returned zero bytes; and no step of the write
\* drain, whatever the result of its write, changes any port's flag.
C21_ConnectedMonotonic ==
    [][ /\ Len(serials') >= Len(serials)
        /\ \A k \in (Len(serials) + 1)..Len(serials') : serials'[k].connected
        /\ \A i \in Slots :
             /\ ~Connected(i) => ~serials'[i + 1].connected
             /\ (Connected(i) /\ ~serials'[i + 1].connected) =>
                   (sys'.kind = "read" /\ sys'.result = "Closed" /\ sys'.slot = i)
        /\ (stage = "write" \/ sys'.kind = "write") => serials' = serials ]_vars

\* C21 witness: one port was closed by a zero-byte read, and a write to
\* another port, part of whose payload was already accepted, has just
\* failed with that port's flag still set.
C21_Witness ==
    /\ \E i \in Slots : ~Connected(i)
    /\ sys.kind = "write" /\ sys.result = "Error"
    /\ Connected(sys.slot)
    /\ wr.bytes_wrote > 0
====
